---- MODULE Spec2Model ----
(***************************************************************************)
(* Model of the Crucible MCP servers.                                      *)
(*                                                                         *)
(*   crucible_mcp_server.py     ("1.0"): a tool registry                    *)
(*       (handle_list_tools), a dispatcher (handle_call_tool) and main.    *)
(*   crucible_mcp_server2.0.py  ("2.0"): FastMCP tool functions and the    *)
(*       __main__ block.                                                   *)
(*                                                                         *)
(* pycrucible.CrucibleClient is external: every method of it either        *)
(* returns some value or raises some Exception, chosen nondeterministically.*)
(***************************************************************************)
EXTENDS Integers, Sequences, FiniteSets, TLC

(***************************************************************************)
(* Python values.  A value is a record tagged by its type.                 *)
(***************************************************************************)
PyNone == [t |-> "none"]
PyStr(s) == [t |-> "str", s |-> s]
PyInt(n) == [t |-> "int", n |-> n]
PyBool(b) == [t |-> "bool", b |-> b]
\* a dict with string keys: d is a function from the keys to values
PyDict(d) == [t |-> "dict", d |-> d]
\* a list: l is the sequence of its items
PyList(l) == [t |-> "list", l |-> l]
\* an object json cannot encode itself (a model instance, a datetime):
\* r is its str() form
PyObj(r) == [t |-> "obj", r |-> r]
\* a container that holds itself: json.dumps raises ValueError on it
PyCircular == [t |-> "circular"]
\* a dict one of whose keys is a tuple
PyTupleKeyed == [t |-> "tuplekeys"]

EmptyDict == << >>

\* Python truthiness, as `not api_url` uses it
Truthy(v) ==
    CASE v.t = "none" -> FALSE
      [] v.t = "str" -> v.s # ""
      [] v.t = "int" -> v.n # 0
      [] v.t = "bool" -> v.b
      [] v.t = "dict" -> DOMAIN v.d # {}
      [] v.t = "list" -> Len(v.l) > 0
      [] OTHER -> TRUE

(***************************************************************************)
(* Bounds of the model.                                                    *)
(***************************************************************************)
\* most keys in one argument bag
MaxArgs == 2
\* most handle_call_tool requests the event loop holds at once
MaxTasks == 2

(***************************************************************************)
(* The tool registry: handle_list_tools, crucible_mcp_server.py 44-625.    *)
(* A property descriptor keeps the schema's "type", its "default" key when *)
(* it has one (declared = "schema"), and the default its description text  *)
(* announces as "(default: N)" (declared = "description").                 *)
(***************************************************************************)
Prop(type) == [type |-> type, declared |-> "none", default |-> PyNone]
PropDefault(type, v) == [type |-> type, declared |-> "schema", default |-> v]
PropDocDefault(type, v) == [type |-> type, declared |-> "description", default |-> v]

Tool(name, properties, required) ==
    [name |-> name, properties |-> properties, required |-> required]

\* the list handle_list_tools returns, in its order
ToolList ==
    <<
    \* lines 51-64
    Tool("list_projects",
         [limit |-> PropDocDefault("integer", PyInt(100))],
         {}),
    \* lines 65-78
    Tool("get_project",
         [project_id |-> Prop("string")],
         {"project_id"}),
    \* lines 79-92
    Tool("get_user",
         [orcid |-> Prop("string")],
         {"orcid"}),
    \* lines 93-147
    Tool("list_datasets",
         [sample_id |-> Prop("string"),
          public |-> Prop("boolean"),
          instrument_id |-> Prop("integer"),
          project_id |-> Prop("string"),
          owner_orcid |-> Prop("string"),
          dataset_name |-> Prop("string"),
          source_folder |-> Prop("string"),
          data_format |-> Prop("string"),
          measurement |-> Prop("string"),
          session_name |-> Prop("string"),
          keyword |-> Prop("string")],
         {}),
    \* lines 148-166
    Tool("get_dataset",
         [dsid |-> Prop("string"),
          include_metadata |-> PropDefault("boolean", PyBool(FALSE))],
         {"dsid"}),
    \* lines 167-184
    Tool("update_dataset",
         [dsid |-> Prop("string"),
          updates |-> Prop("object")],
         {"dsid", "updates"}),
    \* lines 185-206
    Tool("download_dataset",
         [dsid |-> Prop("string"),
          file_name |-> Prop("string"),
          output_path |-> Prop("string")],
         {"dsid"}),
    \* lines 207-233
    Tool("request_ingestion",
         [dsid |-> Prop("string"),
          file_to_upload |-> Prop("string"),
          ingestion_class |-> Prop("string"),
          wait_for_response |-> Prop("boolean")],
         {"dsid"}),
    \* lines 234-251
    Tool("get_ingestion_status",
         [dsid |-> Prop("string"),
          reqid |-> Prop("string")],
         {"dsid", "reqid"}),
    \* lines 252-269
    Tool("get_scicat_status",
         [dsid |-> Prop("string"),
          reqid |-> Prop("string")],
         {"dsid", "reqid"}),
    \* lines 270-287
    Tool("get_thumbnails",
         [dsid |-> Prop("string"),
          limit |-> PropDocDefault("integer", PyInt(100))],
         {"dsid"}),
    \* lines 288-309
    Tool("add_thumbnail",
         [dsid |-> Prop("string"),
          file_path |-> Prop("string"),
          thumbnail_name |-> Prop("string")],
         {"dsid", "file_path"}),
    \* lines 310-327
    Tool("get_associated_files",
         [dsid |-> Prop("string"),
          limit |-> PropDocDefault("integer", PyInt(100))],
         {"dsid"}),
    \* lines 328-349
    Tool("add_associated_file",
         [dsid |-> Prop("string"),
          file_path |-> Prop("string"),
          filename |-> Prop("string")],
         {"dsid", "file_path"}),
    \* lines 350-363
    Tool("get_scientific_metadata",
         [dsid |-> Prop("string")],
         {"dsid"}),
    \* lines 364-386
    Tool("update_scientific_metadata",
         [dsid |-> Prop("string"),
          metadata |-> Prop("object"),
          overwrite |-> PropDefault("boolean", PyBool(FALSE))],
         {"dsid", "metadata"}),
    \* lines 387-400
    Tool("get_keywords",
         [limit |-> PropDocDefault("integer", PyInt(100))],
         {}),
    \* lines 401-418
    Tool("add_dataset_keyword",
         [dsid |-> Prop("string"),
          keyword |-> Prop("string")],
         {"dsid", "keyword"}),
    \* lines 419-442
    Tool("request_scicat_upload",
         [dsid |-> Prop("string"),
          wait_for_response |-> PropDefault("boolean", PyBool(FALSE)),
          overwrite_data |-> PropDefault("boolean", PyBool(FALSE))],
         {"dsid"}),
    \* lines 443-456
    Tool("get_google_drive_location",
         [dsid |-> Prop("string")],
         {"dsid"}),
    \* lines 458-466
    Tool("list_instruments",
         EmptyDict,
         {}),
    \* lines 467-484
    Tool("get_instrument",
         [instrument_name |-> Prop("string"),
          instrument_id |-> Prop("integer")],
         {}),
    \* lines 485-506
    Tool("get_or_add_instrument",
         [instrument_name |-> Prop("string"),
          location |-> Prop("string"),
          instrument_owner |-> Prop("string")],
         {"instrument_name"}),
    \* lines 507-548
    Tool("list_samples",
         [dataset_id |-> Prop("string"),
          parent_id |-> Prop("string"),
          unique_id |-> Prop("string"),
          sample_name |-> Prop("string"),
          project_id |-> Prop("string"),
          owner_orcid |-> Prop("string"),
          date_created |-> Prop("string"),
          description |-> Prop("string")],
         {}),
    \* lines 549-562
    Tool("get_sample",
         [sample_id |-> Prop("string")],
         {"sample_id"}),
    \* lines 563-592
    Tool("add_sample",
         [unique_id |-> Prop("string"),
          sample_name |-> Prop("string"),
          description |-> Prop("string"),
          creation_date |-> Prop("string"),
          owner_orcid |-> Prop("string")],
         {}),
    \* lines 593-610
    Tool("add_sample_to_dataset",
         [dataset_id |-> Prop("string"),
          sample_id |-> Prop("string")],
         {"dataset_id", "sample_id"}),
    \* lines 611-624
    Tool("get_project_users",
         [project_id |-> Prop("string")],
         {"project_id"})
    >>

handle_list_tools == ToolList

ToolNames == {ToolList[i].name : i \in DOMAIN ToolList}

\* the descriptor registered under a name (the first one, as a client would
\* look it up)
Descriptor(name) ==
    ToolList[CHOOSE i \in DOMAIN ToolList :
                /\ ToolList[i].name = name
                /\ \A j \in DOMAIN ToolList : ToolList[j].name = name => i <= j]

Properties(name) == DOMAIN Descriptor(name).properties
\* a registry whose schemas list no required key
Required_None(name) == {}
Required(name) == Descriptor(name).required

(***************************************************************************)
(* Exceptions.  str(e) is the message, except for KeyError, whose str is   *)
(* the repr of the missing key.                                            *)
(***************************************************************************)
Exc(cls, msg) == [cls |-> cls, msg |-> msg]
KeyError(key) == Exc("KeyError", key)
TypeError(msg) == Exc("TypeError", msg)
ValueError(msg) == Exc("ValueError", msg)

\* str(e)
ExcStr(e) == IF e.cls = "KeyError" THEN "'" \o e.msg \o "'" ELSE e.msg

\* the classes derived from Exception; the others derive from BaseException
\* alone
ExceptionClasses == {"KeyError", "TypeError", "ValueError", "HTTPError", "Exception"}

(***************************************************************************)
(* What a dispatcher branch does before any client answer is known:        *)
(* invoke one client method, raise, or report an unknown tool.             *)
(***************************************************************************)
\* a status branch pasted from its neighbour, method and all
Invoke_CopyPaste(method, args, kwargs) ==
    [kind |-> "invoke",
     method |-> IF method = "get_scicat_status" THEN "get_ingestion_status" ELSE method,
     args |-> args, kwargs |-> kwargs]

Invoke(method, args, kwargs) ==
    [kind |-> "invoke", method |-> method, args |-> args, kwargs |-> kwargs]
Raise(e) == [kind |-> "raise", exc |-> e]
Unknown == [kind |-> "unknown"]

\* arguments.get(key): None when the key is absent
GetNone(arguments, key) ==
    IF key \in DOMAIN arguments THEN arguments[key] ELSE PyNone

\* a lookup that forgets its default
Get_IgnoresDefault(arguments, key, default) ==
    IF key \in DOMAIN arguments THEN arguments[key] ELSE PyNone

\* arguments.get(key, default)
Get(arguments, key, default) ==
    IF key \in DOMAIN arguments THEN arguments[key] ELSE default

\* the statements arguments[k] for the keys k in order, followed by the
\* `rest` of the branch: the first absent key raises KeyError
Indexing(arguments, keys, rest) ==
    IF \E i \in DOMAIN keys : keys[i] \notin DOMAIN arguments
    THEN Raise(KeyError(keys[CHOOSE i \in DOMAIN keys :
                                 /\ keys[i] \notin DOMAIN arguments
                                 /\ \A j \in 1..(i-1) : keys[j] \in DOMAIN arguments]))
    ELSE rest

\* a forwarding that keeps only the truthy values
Forward_DropsFalsy(method, arguments) ==
    [kind |-> "invoke", method |-> method, args |-> << >>,
     kwargs |-> [k \in {x \in DOMAIN arguments : Truthy(arguments[x])} |-> arguments[k]]]

\* client.method(**arguments): the whole argument bag as keyword arguments
Forward(method, arguments) == Invoke(method, << >>, arguments)

\* f(positional..., **mapping): a mapping that is no dict is a TypeError
\* raised before the call is made
Splat(method, args, mapping) ==
    IF mapping.t = "dict"
    THEN Invoke(method, args, mapping.d)
    ELSE Raise(TypeError("argument after ** must be a mapping"))

(***************************************************************************)
(* The if/elif chain of handle_call_tool, crucible_mcp_server.py 640-780.  *)
(* `a` is the argument bag, a function from its keys to values.            *)
(***************************************************************************)
Branch(name, a) ==
    CASE name = "list_projects" ->
            Invoke("list_projects", << >>, [limit |-> Get(a, "limit", PyInt(100))])
      [] name = "get_account" ->
            Invoke("get_user_account_info", << >>, EmptyDict)
      [] name = "get_project" ->
            Indexing(a, <<"project_id">>,
                Invoke("get_project", <<a["project_id"]>>, EmptyDict))
      [] name = "get_user" ->
            Indexing(a, <<"orcid">>,
                Invoke("get_user", <<a["orcid"]>>, EmptyDict))
      [] name = "list_datasets" ->
            Forward("list_datasets", a)
      [] name = "get_dataset" ->
            Indexing(a, <<"dsid">>,
                Invoke("get_dataset", <<a["dsid"]>>,
                       [include_metadata |-> Get(a, "include_metadata", PyBool(FALSE))]))
      [] name = "update_dataset" ->
            Indexing(a, <<"dsid", "updates">>,
                Splat("update_dataset", <<a["dsid"]>>, a["updates"]))
      [] name = "download_dataset" ->
            Indexing(a, <<"dsid">>,
                Invoke("download_dataset", <<a["dsid"]>>,
                       [file_name |-> GetNone(a, "file_name"),
                        output_path |-> GetNone(a, "output_path")]))
      [] name = "request_ingestion" ->
            Indexing(a, <<"dsid">>,
                Invoke("request_ingestion", <<a["dsid"]>>,
                       [file_to_upload |-> GetNone(a, "file_to_upload"),
                        ingestion_class |-> GetNone(a, "ingestion_class"),
                        wait_for_response |-> GetNone(a, "wait_for_response")]))
      [] name = "get_ingestion_status" ->
            Indexing(a, <<"dsid", "reqid">>,
                Invoke("get_ingestion_status", <<a["dsid"], a["reqid"]>>, EmptyDict))
      [] name = "get_scicat_status" ->
            Indexing(a, <<"dsid", "reqid">>,
                Invoke("get_scicat_status", <<a["dsid"], a["reqid"]>>, EmptyDict))
      [] name = "get_thumbnails" ->
            Indexing(a, <<"dsid">>,
                Invoke("get_thumbnails", <<a["dsid"]>>,
                       [limit |-> Get(a, "limit", PyInt(100))]))
      [] name = "add_thumbnail" ->
            Indexing(a, <<"dsid", "file_path">>,
                Invoke("add_thumbnail", <<a["dsid"], a["file_path"]>>,
                       [thumbnail_name |-> GetNone(a, "thumbnail_name")]))
      [] name = "get_associated_files" ->
            Indexing(a, <<"dsid">>,
                Invoke("get_associated_files", <<a["dsid"]>>,
                       [limit |-> Get(a, "limit", PyInt(100))]))
      [] name = "add_associated_file" ->
            Indexing(a, <<"dsid", "file_path">>,
                Invoke("add_associated_file", <<a["dsid"], a["file_path"]>>,
                       [filename |-> GetNone(a, "filename")]))
      [] name = "get_scientific_metadata" ->
            Indexing(a, <<"dsid">>,
                Invoke("get_scientific_metadata", <<a["dsid"]>>, EmptyDict))
      [] name = "update_scientific_metadata" ->
            Indexing(a, <<"dsid", "metadata">>,
                Invoke("update_scientific_metadata", <<a["dsid"], a["metadata"]>>,
                       [overwrite |-> Get(a, "overwrite", PyBool(FALSE))]))
      [] name = "get_keywords" ->
            Invoke("get_keywords", << >>, [limit |-> Get(a, "limit", PyInt(100))])
      [] name = "add_dataset_keyword" ->
            Indexing(a, <<"dsid", "keyword">>,
                Invoke("add_dataset_keyword", <<a["dsid"], a["keyword"]>>, EmptyDict))
      [] name = "request_scicat_upload" ->
            Indexing(a, <<"dsid">>,
                Invoke("request_scicat_upload", <<a["dsid"]>>,
                       [wait_for_response |-> Get(a, "wait_for_response", PyBool(FALSE)),
                        overwrite_data |-> Get(a, "overwrite_data", PyBool(FALSE))]))
      [] name = "get_google_drive_location" ->
            Indexing(a, <<"dsid">>,
                Invoke("get_google_drive_location", <<a["dsid"]>>, EmptyDict))
      [] name = "list_instruments" ->
            Invoke("list_instruments", << >>, EmptyDict)
      [] name = "get_instrument" ->
            Invoke("get_instrument", << >>,
                   [instrument_name |-> GetNone(a, "instrument_name"),
                    instrument_id |-> GetNone(a, "instrument_id")])
      [] name = "get_or_add_instrument" ->
            Indexing(a, <<"instrument_name">>,
                Invoke("get_or_add_instrument", <<a["instrument_name"]>>,
                       [location |-> GetNone(a, "location"),
                        instrument_owner |-> GetNone(a, "instrument_owner")]))
      [] name = "list_samples" ->
            Forward("list_samples", a)
      [] name = "get_sample" ->
            Indexing(a, <<"sample_id">>,
                Invoke("get_sample", <<a["sample_id"]>>, EmptyDict))
      [] name = "add_sample" ->
            Forward("add_sample", a)
      [] name = "add_sample_to_dataset" ->
            Indexing(a, <<"dataset_id", "sample_id">>,
                Invoke("add_sample_to_dataset", <<a["dataset_id"], a["sample_id"]>>,
                       EmptyDict))
      [] name = "get_project_users" ->
            Indexing(a, <<"project_id">>,
                Invoke("get_project_users", <<a["project_id"]>>, EmptyDict))
      [] OTHER -> Unknown

\* the names the chain has a branch for
RoutedNames ==
    {"list_projects", "get_account", "get_project", "get_user", "list_datasets",
     "get_dataset", "update_dataset", "download_dataset", "request_ingestion",
     "get_ingestion_status", "get_scicat_status", "get_thumbnails", "add_thumbnail",
     "get_associated_files", "add_associated_file", "get_scientific_metadata",
     "update_scientific_metadata", "get_keywords", "add_dataset_keyword",
     "request_scicat_upload", "get_google_drive_location", "list_instruments",
     "get_instrument", "get_or_add_instrument", "list_samples", "get_sample",
     "add_sample", "add_sample_to_dataset", "get_project_users"}

(***************************************************************************)
(* json.dumps(result, indent=2, default=str), crucible_mcp_server.py 786.  *)
(* Strings of the model hold no character json escapes.  A dict of the     *)
(* model has no insertion order: results hold dicts of at most one key.    *)
(***************************************************************************)
RECURSIVE Spaces(_)
Spaces(level) == IF level = 0 THEN "" ELSE "  " \o Spaces(level - 1)

JsonString(s) == "\"" \o s \o "\""

RECURSIVE Serializable(_)
Serializable(v) ==
    CASE v.t = "circular" -> FALSE
      [] v.t = "tuplekeys" -> FALSE
      [] v.t = "list" -> \A i \in DOMAIN v.l : Serializable(v.l[i])
      [] v.t = "dict" -> \A k \in DOMAIN v.d : Serializable(v.d[k])
      [] OTHER -> TRUE

RECURSIVE Encode(_, _)
RECURSIVE EncodeItems(_, _, _)
RECURSIVE EncodeMembers(_, _, _)

\* the items l[i..] of a list, one per line
EncodeItems(l, i, level) ==
    IF i > Len(l) THEN ""
    ELSE Spaces(level) \o Encode(l[i], level)
         \o (IF i < Len(l) THEN ",\n" ELSE "\n")
         \o EncodeItems(l, i + 1, level)

\* the members of a dict whose keys are still to be written
EncodeMembers(d, keys, level) ==
    IF keys = {} THEN ""
    ELSE LET k == CHOOSE x \in keys : TRUE
         IN  Spaces(level) \o JsonString(k) \o ": " \o Encode(d[k], level)
             \o (IF keys # {k} THEN ",\n" ELSE "\n")
             \o EncodeMembers(d, keys \ {k}, level)

Encode(v, level) ==
    CASE v.t = "none" -> "null"
      [] v.t = "bool" -> (IF v.b THEN "true" ELSE "false")
      [] v.t = "int" -> ToString(v.n)
      [] v.t = "str" -> JsonString(v.s)
      \* default=str
      [] v.t = "obj" -> JsonString(v.r)
      [] v.t = "list" ->
            IF Len(v.l) = 0 THEN "[]"
            ELSE "[\n" \o EncodeItems(v.l, 1, level + 1) \o Spaces(level) \o "]"
      [] v.t = "dict" ->
            IF DOMAIN v.d = {} THEN "{}"
            ELSE "{\n" \o EncodeMembers(v.d, DOMAIN v.d, level + 1) \o Spaces(level) \o "}"

CircularReference == ValueError("Circular reference detected")
BadKey == TypeError("keys must be str, int, float, bool or None, not tuple")

\* the exception json.dumps raises for a value it cannot write: default=str
\* stringifies values, not a container that holds itself nor a dict key
RECURSIVE DumpsError(_)
DumpsError(v) ==
    CASE v.t = "circular" -> CircularReference
      [] v.t = "tuplekeys" -> BadKey
      [] v.t = "list" ->
            DumpsError(v.l[CHOOSE i \in DOMAIN v.l :
                              /\ ~Serializable(v.l[i])
                              /\ \A j \in 1..(i-1) : Serializable(v.l[j])])
      [] v.t = "dict" ->
            DumpsError(v.d[CHOOSE k \in DOMAIN v.d : ~Serializable(v.d[k])])

\* either the text, or the exception json.dumps raises
JsonDumps(v) ==
    IF Serializable(v)
    THEN [ok |-> TRUE, text |-> Encode(v, 0)]
    ELSE [ok |-> FALSE, exc |-> DumpsError(v)]

(***************************************************************************)
(* handle_call_tool, crucible_mcp_server.py 628-799.                       *)
(***************************************************************************)
\* a content item of another type
TextContent_Image(text) == [type |-> "image", text |-> text]

TextContent(text) == [type |-> "text", text |-> text]

\* what a call gives its caller: a returned list, or an exception that
\* leaves the function
Returned(contents) == [kind |-> "returned", contents |-> contents]
Propagated(e) == [kind |-> "propagated", exc |-> e]

\* lines 632-635
NotInitializedText ==
    "Error: Crucible client not initialized. Please set CRUCIBLE_API_URL and CRUCIBLE_API_KEY environment variables."

\* line 779
UnknownToolText(name) == "Error: Unknown tool '" \o name \o "'"

\* line 784
NoReturnValueText == "Operation completed successfully (no return value)"

\* a message that leaves the tool's name out
ErrorExecutingText_NoName(name, e) == "Error: " \o ExcStr(e)

\* line 798
ErrorExecutingText(name, e) == "Error executing " \o name \o ": " \o ExcStr(e)

\* a clause that lets a failed lookup in the argument bag through
Caught_NoKeyError(e) == e.cls \in ExceptionClasses \ {"KeyError"}

\* a clause that catches the missing-key error alone
Caught_KeyErrorOnly(e) == e.cls = "KeyError"

\* `except Exception` (line 795): the classes the clause catches
Caught(e) == e.cls \in ExceptionClasses

\* an exception raised inside the try block of lines 637-799
ExceptClause(name, e) ==
    IF Caught(e)
    THEN Returned(<<TextContent(ErrorExecutingText(name, e))>>)
    ELSE Propagated(e)

\* `if not result:` in place of `if result is None:`
FormatResult_Falsy(name, result) ==
    IF ~Truthy(result)
    THEN Returned(<<TextContent(NoReturnValueText)>>)
    ELSE LET dumped == JsonDumps(result)
         IN  IF dumped.ok
             THEN Returned(<<TextContent(dumped.text)>>)
             ELSE ExceptClause(name, dumped.exc)

\* a handler whose try block ends before the result is formatted
FormatResult_OutsideTry(name, result) ==
    IF result = PyNone
    THEN Returned(<<TextContent(NoReturnValueText)>>)
    ELSE LET dumped == JsonDumps(result)
         IN  IF dumped.ok
             THEN Returned(<<TextContent(dumped.text)>>)
             ELSE Propagated(dumped.exc)

\* lines 782-791: format the result
FormatResult(name, result) ==
    IF result = PyNone
    THEN Returned(<<TextContent(NoReturnValueText)>>)
    ELSE LET dumped == JsonDumps(result)
         IN  IF dumped.ok
             THEN Returned(<<TextContent(dumped.text)>>)
             ELSE ExceptClause(name, dumped.exc)

\* the client's answer to one invocation
Returns(v) == [kind |-> "return", value |-> v]
Raises(e) == [kind |-> "raise", exc |-> e]

\* a branch that invokes its method a second time
Invocations_Retry(plan) ==
    IF plan.kind = "invoke"
    THEN <<[method |-> plan.method, args |-> plan.args, kwargs |-> plan.kwargs],
           [method |-> plan.method, args |-> plan.args, kwargs |-> plan.kwargs]>>
    ELSE << >>

\* the invocations of client methods a call of the chain makes: the plan's
\* one invocation, made once
Invocations(plan) ==
    IF plan.kind = "invoke"
    THEN <<[method |-> plan.method, args |-> plan.args, kwargs |-> plan.kwargs]>>
    ELSE << >>

\* a handler that runs the chain whether or not the client is set
Invoked_NoClientCheck(cl, name, arguments) == Invocations(Branch(name, arguments))

\* the client invocations one call of the handler makes
Invoked(cl, name, arguments) ==
    IF cl = PyNone THEN << >> ELSE Invocations(Branch(name, arguments))

\* a handler that looks the name up before it looks at the client
handle_call_tool_NameFirst(cl, name, arguments, answer) ==
    LET plan == Branch(name, arguments)
    IN  IF plan.kind = "unknown"
        THEN Returned(<<TextContent(UnknownToolText(name))>>)
        ELSE IF cl = PyNone
        THEN Returned(<<TextContent(NotInitializedText)>>)
        ELSE IF plan.kind = "raise" THEN ExceptClause(name, plan.exc)
        ELSE IF answer.kind = "raise" THEN ExceptClause(name, answer.exc)
        ELSE FormatResult(name, answer.value)

\* The whole handler.  cl is the global client, answer the client's answer
\* to the invocation, should one be made.  Gives what the caller gets.
handle_call_tool(cl, name, arguments, answer) ==
    IF cl = PyNone
    THEN Returned(<<TextContent(NotInitializedText)>>)
    ELSE LET plan == Branch(name, arguments)
         IN  CASE plan.kind = "unknown" ->
                      Returned(<<TextContent(UnknownToolText(name))>>)
               [] plan.kind = "raise" -> ExceptClause(name, plan.exc)
               [] plan.kind = "invoke" ->
                      IF answer.kind = "raise"
                      THEN ExceptClause(name, answer.exc)
                      ELSE FormatResult(name, answer.value)

(***************************************************************************)
(* The tool functions of crucible_mcp_server2.0.py.  `p` binds every       *)
(* parameter of the function: the caller's value, or the signature's       *)
(* default.                                                                *)
(***************************************************************************)
\* a comprehension that tests `if v` in place of `if v is not None`
ProvidedFilters_Truthy(filter_fields) ==
    [k \in {x \in DOMAIN filter_fields : Truthy(filter_fields[x])} |-> filter_fields[k]]

\* {k: v for k, v in filter_fields.items() if v is not None}
ProvidedFilters(filter_fields) ==
    [k \in {x \in DOMAIN filter_fields : filter_fields[x] # PyNone} |-> filter_fields[k]]

\* the signature defaults of list_datasets, lines 94-109
ListDatasetsDefaults ==
    [sample_id |-> PyNone, unique_id |-> PyNone, public |-> PyNone,
     dataset_name |-> PyNone, file_to_upload |-> PyNone, owner_orcid |-> PyNone,
     project_id |-> PyNone, instrument_name |-> PyNone, source_folder |-> PyNone,
     creation_time |-> PyNone, data_format |-> PyNone, measurement |-> PyNone,
     session_name |-> PyNone, sha256_hash_file_to_upload |-> PyNone,
     keyword |-> PyNone, limit |-> PyInt(100)]

\* the keys of filter_fields, lines 140-154
ListDatasetsFilterKeys ==
    {"unique_id", "public", "dataset_name", "file_to_upload", "owner_orcid",
     "project_id", "instrument_name", "source_folder", "creation_time",
     "data_format", "measurement", "session_name", "sha256_hash_file_to_upload",
     "keyword"}

\* list_datasets, lines 93-157
list_datasets(p) ==
    LET filter_fields == [k \in ListDatasetsFilterKeys |-> p[k]]
        provided_filters == ProvidedFilters(filter_fields)
    IN  Invoke("list_datasets", <<p["sample_id"], p["limit"]>>, provided_filters)

\* the signature defaults of list_samples, line 263
ListSamplesDefaults ==
    [dataset_id |-> PyNone, parent_id |-> PyNone, limit |-> PyInt(100),
     sample_name |-> PyNone, owner_orcid |-> PyNone, date_created |-> PyNone,
     project_id |-> PyNone, description |-> PyNone]

\* the keys of filter_fields, lines 281-286
ListSamplesFilterKeys ==
    {"sample_name", "owner_orcid", "date_created", "project_id", "description"}

\* list_samples, lines 262-290
list_samples(p) ==
    LET filter_fields == [k \in ListSamplesFilterKeys |-> p[k]]
        provided_filters == ProvidedFilters(filter_fields)
    IN  Invoke("list_samples", <<p["dataset_id"], p["parent_id"], p["limit"]>>,
               provided_filters)

\* the signature of list_projects, line 35: orcid has no default
ListProjectsRequired == <<"orcid">>
ListProjectsDefaults == [limit |-> PyInt(100)]

\* list_projects, lines 34-45
list_projects(p) ==
    Invoke("list_projects", <<p["orcid"], p["limit"]>>, EmptyDict)

\* Python's TypeError for a call that leaves out a parameter without default
MissingArgument(function, key) ==
    TypeError(function \o "() missing 1 required positional argument: '" \o key \o "'")

\* Python's binding of a call's keyword arguments to a signature
Bind(defaults, supplied) ==
    [k \in DOMAIN defaults |-> IF k \in DOMAIN supplied THEN supplied[k] ELSE defaults[k]]

\* what a tool function gives FastMCP: the client's return value, or the
\* client's exception
ToolFunctionOutcome(answer) ==
    IF answer.kind = "raise"
    THEN Propagated(answer.exc)
    ELSE [kind |-> "value", value |-> answer.value]

(***************************************************************************)
(* Inputs: requests and client answers, drawn from small sets.             *)
(***************************************************************************)
\* a key no schema declares
UndeclaredKey == "bogus"

\* a name with no branch and no descriptor
UnroutedName == "no_such_tool"

ValuesOfType(type) ==
    CASE type = "string" -> {PyStr("DS123"), PyStr("TEM")}
      [] type = "boolean" -> {PyBool(TRUE), PyBool(FALSE)}
      [] type = "integer" -> {PyInt(5)}
      [] type = "object" -> {PyDict(EmptyDict), PyDict([dataset_name |-> PyStr("TEM")])}

RequestNames == ToolNames \cup RoutedNames \cup {UnroutedName}

\* list_projects is also tried with the ORCID filter of the 2.0 signature
KeysFor(name) ==
    IF name \in ToolNames
    THEN Properties(name) \cup {UndeclaredKey}
         \cup (IF name = "list_projects" THEN {"orcid"} ELSE {})
    ELSE {"dsid", UndeclaredKey}

RequiredFor(name) == IF name \in ToolNames THEN Required(name) ELSE {}

ValuesFor(name, key) ==
    IF name \in ToolNames /\ key \in Properties(name)
    THEN ValuesOfType(Descriptor(name).properties[key].type)
    ELSE {PyStr("TEM")}

\* the mapping b with key k set to v
Put(b, k, v) == [x \in DOMAIN b \cup {k} |-> IF x = k THEN v ELSE b[x]]

RECURSIVE BagsOver(_, _)
BagsOver(name, keys) ==
    IF keys = {} THEN {EmptyDict}
    ELSE LET k == CHOOSE x \in keys : TRUE
         IN  {Put(b, k, v) : b \in BagsOver(name, keys \ {k}), v \in ValuesFor(name, k)}

\* the argument bags tried for a tool: any of its required keys, and at most
\* MaxArgs other keys
ArgumentBags(name) ==
    UNION {BagsOver(name, keys) :
             keys \in {s \in SUBSET KeysFor(name) :
                          Cardinality(s \ RequiredFor(name)) <= MaxArgs}}

ReturnValues ==
    {PyNone, PyList(<< >>), PyDict(EmptyDict), PyStr(""), PyStr(NoReturnValueText), PyBool(TRUE),
     PyInt(0), PyList(<<PyDict([unique_id |-> PyStr("DS123")]), PyNone>>),
     PyDict([project_id |-> PyStr("TEM")]), PyObj("BaseDataset"), PyCircular,
     PyTupleKeyed, PyList(<<PyInt(0), PyCircular>>)}

\* the client raises exceptions derived from Exception
ClientExceptions ==
    {Exc("HTTPError", "404 Not Found"), ValueError("bad value"), KeyError("dsid"),
     TypeError("unexpected keyword argument"), Exc("Exception", "")}

ClientAnswers ==
    {Returns(v) : v \in ReturnValues} \cup {Raises(e) : e \in ClientExceptions}

EnvValues(good) == {PyNone, PyStr(""), PyStr(good)}

\* the keyword arguments tried for a 2.0 tool function: at most MaxArgs of
\* its parameters
V2ValuesFor(key) ==
    CASE key = "limit" -> {PyInt(5), PyNone}
      [] key = "public" -> {PyBool(TRUE), PyBool(FALSE)}
      [] key \in {"keyword", "description"} -> {PyStr("TEM"), PyNone}
      [] OTHER -> {PyStr("TEM")}

RECURSIVE V2BagsOver(_)
V2BagsOver(keys) ==
    IF keys = {} THEN {EmptyDict}
    ELSE LET k == CHOOSE x \in keys : TRUE
         IN  {Put(b, k, v) : b \in V2BagsOver(keys \ {k}), v \in V2ValuesFor(k)}

V2Supplied(defaults) ==
    UNION {V2BagsOver(keys) :
             keys \in {s \in SUBSET DOMAIN defaults : Cardinality(s) <= MaxArgs}}

(***************************************************************************)
(* State.                                                                  *)
(***************************************************************************)
VARIABLES
    version,        \* which server file the process runs: "1.0" or "2.0"
    env,            \* os.environ: CRUCIBLE_API_URL and CRUCIBLE_API_KEY
    pc,             \* "loaded" (module imported, main not run), "serving", "exited"
    exit_status,    \* the process's exit status once pc = "exited", else -1
    client,         \* the global `client`
    assignments,    \* how many times `client` was assigned since the module loaded
    stderr,         \* the lines printed to sys.stderr
    req,            \* the request being answered
    invoked,        \* the client invocations made for req, with the client's answers
    resp,           \* the answer to req
    first_tools,    \* what the first call of handle_list_tools returned
    tasks           \* the handle_call_tool requests the event loop holds at once

vars == <<version, env, pc, exit_status, client, assignments, stderr, req, invoked, resp,
          first_tools, tasks>>

NeverListed == [listed |-> FALSE]

NoRequest == [kind |-> "none"]
NoResponse == [kind |-> "none"]

CrucibleClient(api_url, api_key) ==
    [t |-> "client", api_url |-> api_url, api_key |-> api_key]

\* line 812 of crucible_mcp_server.py, line 300 of crucible_mcp_server2.0.py
ConfigErrorText ==
    "Error: " \o "CRUCIBLE_API_URL" \o " and " \o "CRUCIBLE_API_KEY"
    \o " environment variables must be set"

Idle == req = NoRequest /\ resp = NoResponse

\* line 39: client = None; nothing served, nothing printed
Init ==
    /\ version \in {"1.0", "2.0"}
    /\ env \in [CRUCIBLE_API_URL : EnvValues("https://crucible.example"),
                CRUCIBLE_API_KEY : EnvValues("secret")]
    /\ pc = "loaded"
    /\ exit_status = -1
    /\ client = PyNone
    /\ assignments = 0
    /\ stderr = << >>
    /\ req = NoRequest
    /\ invoked = << >>
    /\ resp = NoResponse
    /\ first_tools = NeverListed
    /\ tasks = << >>

\* `and` in place of `or`
\* a test for absence only: `api_url is None or api_key is None`
ConfigMissing_IsNone(api_url, api_key) == api_url = PyNone \/ api_key = PyNone

ConfigMissing_And(api_url, api_key) == ~Truthy(api_url) /\ ~Truthy(api_key)

\* `if not api_url or not api_key` (line 811; 2.0: line 299)
ConfigMissing(api_url, api_key) == ~Truthy(api_url) \/ ~Truthy(api_key)

\* main up to the transport loop, crucible_mcp_server.py 802-815, and the
\* __main__ block of crucible_mcp_server2.0.py, 294-303
Startup ==
    /\ pc = "loaded"
    /\ Idle
    /\ LET api_url == env.CRUCIBLE_API_URL
           api_key == env.CRUCIBLE_API_KEY
       IN  IF ConfigMissing(api_url, api_key)
           THEN /\ stderr' = Append(stderr, ConfigErrorText)
                /\ pc' = "exited"
                /\ exit_status' = 1
                /\ UNCHANGED <<client, assignments>>
           ELSE /\ client' = CrucibleClient(api_url, api_key)
                /\ assignments' = assignments + 1
                /\ pc' = "serving"
                /\ UNCHANGED <<stderr, exit_status>>
    /\ UNCHANGED <<version, env, req, invoked, resp, first_tools, tasks>>

main == version = "1.0" /\ Startup

main2 == version = "2.0" /\ Startup

\* an exception that leaves a handler ends the process with status 1
AfterOutcome(out) ==
    IF out.kind = "propagated"
    THEN pc' = "exited" /\ exit_status' = 1
    ELSE UNCHANGED <<pc, exit_status>>

\* the client answers only a call that reaches it
NoAnswer == [kind |-> "none"]

AnswersTo(calls) == IF calls = << >> THEN {NoAnswer} ELSE ClientAnswers

\* a handler that builds the client itself when it finds none
CallTool_LazyClient(name, arguments) ==
    /\ version = "1.0"
    /\ pc \in {"loaded", "serving"}
    /\ Idle
    /\ LET cl == IF client = PyNone
                 THEN CrucibleClient(env.CRUCIBLE_API_URL, env.CRUCIBLE_API_KEY)
                 ELSE client
       IN  /\ client' = cl
           /\ assignments' = IF client = PyNone THEN assignments + 1 ELSE assignments
           /\ \E answer \in AnswersTo(Invoked(cl, name, arguments)) :
                LET out == handle_call_tool(cl, name, arguments, answer)
                    calls == Invoked(cl, name, arguments)
                IN  /\ req' = [kind |-> "call_tool", name |-> name, arguments |-> arguments]
                    /\ invoked' = [i \in DOMAIN calls |->
                                     [call |-> calls[i], answer |-> answer]]
                    /\ resp' = out
                    /\ AfterOutcome(out)
    /\ UNCHANGED <<version, env, stderr, first_tools, tasks>>

\* one call of handle_call_tool: by the transport loop once serving, or by
\* whoever imported the module before main ran
CallTool(name, arguments) ==
    /\ version = "1.0"
    /\ pc \in {"loaded", "serving"}
    /\ Idle
    /\ \E answer \in AnswersTo(Invoked(client, name, arguments)) :
         LET out == handle_call_tool(client, name, arguments, answer)
             calls == Invoked(client, name, arguments)
         IN  /\ req' = [kind |-> "call_tool", name |-> name, arguments |-> arguments]
             /\ invoked' = [i \in DOMAIN calls |-> [call |-> calls[i], answer |-> answer]]
             /\ resp' = out
             /\ AfterOutcome(out)
    /\ UNCHANGED <<version, env, client, assignments, stderr, first_tools, tasks>>

\* a registry that lists nothing until the client is there
ListTools_NeedsClient ==
    /\ version = "1.0"
    /\ pc \in {"loaded", "serving"}
    /\ Idle
    /\ req' = [kind |-> "list_tools"]
    /\ LET listed == IF client = PyNone THEN << >> ELSE handle_list_tools
       IN  /\ resp' = [kind |-> "tools", tools |-> listed]
           /\ first_tools' = IF first_tools = NeverListed
                             THEN [listed |-> TRUE, tools |-> listed, handle |-> client]
                             ELSE first_tools
    /\ UNCHANGED <<version, env, pc, exit_status, client, assignments, stderr, invoked,
                   tasks>>

\* one call of handle_list_tools
ListTools ==
    /\ version = "1.0"
    /\ pc \in {"loaded", "serving"}
    /\ Idle
    /\ req' = [kind |-> "list_tools"]
    /\ resp' = [kind |-> "tools", tools |-> handle_list_tools]
    /\ first_tools' = IF first_tools = NeverListed
                      THEN [listed |-> TRUE, tools |-> handle_list_tools, handle |-> client]
                      ELSE first_tools
    /\ UNCHANGED <<version, env, pc, exit_status, client, assignments, stderr, invoked,
                   tasks>>

\* one call of a 2.0 tool function by FastMCP
V2Call(tool, p, plan) ==
    /\ \E answer \in AnswersTo(Invocations(plan)) :
         /\ invoked' = [i \in DOMAIN Invocations(plan) |->
                          [call |-> Invocations(plan)[i], answer |-> answer]]
         /\ resp' = IF plan.kind = "raise"
                    THEN Propagated(plan.exc)
                    ELSE ToolFunctionOutcome(answer)
    /\ req' = [kind |-> "tool_function", name |-> tool, params |-> p]
    /\ UNCHANGED <<version, env, pc, exit_status, client, assignments, stderr,
                   first_tools, tasks>>

V2Serving == version = "2.0" /\ pc = "serving" /\ Idle

ListDatasets2 ==
    /\ V2Serving
    /\ \E supplied \in V2Supplied(ListDatasetsDefaults) :
         LET p == Bind(ListDatasetsDefaults, supplied)
         IN  V2Call("list_datasets", p, list_datasets(p))

ListSamples2 ==
    /\ V2Serving
    /\ \E supplied \in V2Supplied(ListSamplesDefaults) :
         LET p == Bind(ListSamplesDefaults, supplied)
         IN  V2Call("list_samples", p, list_samples(p))

\* a call of list_projects: without orcid the call itself is a TypeError and
\* the body never runs
ListProjects2 ==
    /\ V2Serving
    /\ \E supplied \in V2Supplied(Put(ListProjectsDefaults, "orcid", PyNone)) :
         IF \E i \in DOMAIN ListProjectsRequired :
                ListProjectsRequired[i] \notin DOMAIN supplied
         THEN V2Call("list_projects", supplied,
                     Raise(MissingArgument("list_projects", "orcid")))
         ELSE LET p == [k \in {"orcid", "limit"} |->
                          IF k \in DOMAIN supplied THEN supplied[k]
                          ELSE ListProjectsDefaults[k]]
              IN  V2Call("list_projects", p, list_projects(p))

\* the transport writes the answer out and reads on (server.run, line 819;
\* mcp.run, 2.0 line 304)
SendResponse ==
    /\ pc \in {"loaded", "serving"}
    /\ resp # NoResponse
    /\ req' = NoRequest
    /\ resp' = NoResponse
    /\ invoked' = << >>
    /\ UNCHANGED <<version, env, pc, exit_status, client, assignments, stderr,
                   first_tools, tasks>>

\* the input stream closes: the transport loop returns and the process ends
Shutdown ==
    /\ pc = "serving"
    /\ Idle
    /\ pc' = "exited"
    /\ exit_status' = 0
    /\ UNCHANGED <<version, env, client, assignments, stderr, req, invoked, resp,
                   first_tools, tasks>>

HandleCallTool ==
    /\ version = "1.0"
    /\ Idle
    /\ \E name \in RequestNames :
         \E arguments \in ArgumentBags(name) : CallTool(name, arguments)

Next ==
    \/ main
    \/ main2
    \/ HandleCallTool
    \/ ListTools
    \/ ListDatasets2
    \/ ListSamples2
    \/ ListProjects2
    \/ SendResponse
    \/ Shutdown

Spec == Init /\ [][Next]_vars

(***************************************************************************)
(* Concurrent dispatch.  The transport starts a task per request, so       *)
(* several calls of handle_call_tool are scheduled at once; the coroutine  *)
(* (lines 628-799) holds no await, so the event loop runs each scheduled   *)
(* call to its return in one step, in any order.                           *)
(***************************************************************************)
ConcurrentRequests ==
    {[name |-> n, arguments |-> a] :
        n \in {"get_dataset", "list_datasets", UnroutedName},
        a \in {EmptyDict, [dsid |-> PyStr("DS123")]}}

ConcurrentAnswers ==
    {Returns(PyNone), Returns(PyList(<< >>)), Raises(Exc("HTTPError", "404 Not Found"))}

ConcurrentInit == Init /\ version = "1.0"

\* the transport reads a request and schedules its handler
Schedule ==
    /\ pc = "serving"
    /\ Len(tasks) < MaxTasks
    /\ \E r \in ConcurrentRequests :
         tasks' = Append(tasks, [name |-> r.name, arguments |-> r.arguments,
                                 done |-> FALSE])
    /\ UNCHANGED <<version, env, pc, exit_status, client, assignments, stderr, req,
                   invoked, resp, first_tools>>

\* a handler that drops the global client when the client call fails
RunTask_DropsClientOnError(i) ==
    /\ pc = "serving"
    /\ ~tasks[i].done
    /\ LET calls == Invoked(client, tasks[i].name, tasks[i].arguments)
       IN  \E answer \in (IF calls = << >> THEN {NoAnswer} ELSE ConcurrentAnswers) :
             LET out == handle_call_tool(client, tasks[i].name, tasks[i].arguments, answer)
             IN  /\ tasks' = [tasks EXCEPT ![i] =
                                [name |-> tasks[i].name, arguments |-> tasks[i].arguments,
                                 done |-> TRUE, handle |-> client, answer |-> answer,
                                 invoked |-> calls, resp |-> out]]
                 /\ client' = IF answer.kind = "raise" THEN PyNone ELSE client
                 /\ AfterOutcome(out)
    /\ UNCHANGED <<version, env, assignments, stderr, req, invoked, resp,
                   first_tools>>

\* the event loop runs scheduled call i of handle_call_tool to its return
RunTask(i) ==
    /\ pc = "serving"
    /\ ~tasks[i].done
    /\ LET calls == Invoked(client, tasks[i].name, tasks[i].arguments)
       IN  \E answer \in (IF calls = << >> THEN {NoAnswer} ELSE ConcurrentAnswers) :
             LET out == handle_call_tool(client, tasks[i].name, tasks[i].arguments, answer)
             IN  /\ tasks' = [tasks EXCEPT ![i] =
                                [name |-> tasks[i].name, arguments |-> tasks[i].arguments,
                                 done |-> TRUE, handle |-> client, answer |-> answer,
                                 invoked |-> calls, resp |-> out]]
                 /\ AfterOutcome(out)
    /\ UNCHANGED <<version, env, client, assignments, stderr, req, invoked, resp,
                   first_tools>>

Run == \E i \in DOMAIN tasks : RunTask(i)

ConcurrentNext ==
    \/ main
    \/ Schedule
    \/ Run

ConcurrentSpec == ConcurrentInit /\ [][ConcurrentNext]_vars

(***************************************************************************)
(* Properties.                                                             *)
(***************************************************************************)
\* the request answered is a call of handle_call_tool
IsCall == req.kind = "call_tool"

\* the handler gave back exactly one text item holding `text`
Answered(text) == resp = [kind |-> "returned", contents |-> <<[type |-> "text", text |-> text]>>]

\* the client was invoked for the request and raised / returned
ClientRaised == invoked # << >> /\ invoked[1].answer.kind = "raise"
ClientReturned == invoked # << >> /\ invoked[1].answer.kind = "return"

\* C1: with the client handle set, a call under any name handle_list_tools
\* does not return is answered "Error: Unknown tool '<name>'" and nothing is
\* raised.
C1_UnregisteredNameIsUnknown ==
    (IsCall /\ client # PyNone /\ req.name \notin ToolNames)
        => /\ Answered("Error: Unknown tool '" \o req.name \o "'")
           /\ invoked = << >>

\* C2: while the global client is None, every call of handle_call_tool,
\* under a registered name or not and with any argument bag, is answered
\* with the client-not-initialized text, before the unknown-tool check and
\* without invoking anything or raising.
C2_UnsetClientWins ==
    (IsCall /\ client = PyNone)
        => /\ Answered("Error: Crucible client not initialized. Please set CRUCIBLE_API_URL and CRUCIBLE_API_KEY environment variables.")
           /\ invoked = << >>

C2_Witness ==
    /\ IsCall
    /\ client = PyNone
    /\ req.name = UnroutedName
    /\ UndeclaredKey \in DOMAIN req.arguments
    /\ resp.kind = "returned"

\* C3: when the client method a call invokes raises, the handler returns
\* the one text "Error executing {tool_name}: {str(e)}" and the exception
\* does not leave the handler.
C3_ClientErrorText ==
    (IsCall /\ ClientRaised)
        => Answered("Error executing " \o req.name \o ": " \o ExcStr(invoked[1].answer.exc))

C3_Witness ==
    /\ IsCall
    /\ ClientRaised
    /\ invoked[1].answer.exc = KeyError("dsid")
    /\ Answered("Error executing get_dataset: 'dsid'")

\* C4: once serving, no call of a handler, whatever its outcome, ends the
\* process or leaves the serving state (only the closing of the input does,
\* with status 0), and exit status 1 is set only by startup with missing
\* configuration.
C4_CallsNeverStopServing ==
    [][/\ (pc = "serving" /\ req' # req) => pc' = "serving"
       /\ (pc = "serving" /\ pc' # "serving") => (Idle /\ pc' = "exited" /\ exit_status' = 0)
       /\ (exit_status' = 1 /\ exit_status # 1)
             => (pc = "loaded" /\ req' = req
                 /\ ConfigMissing(env.CRUCIBLE_API_URL, env.CRUCIBLE_API_KEY))]_vars

C4_Witness ==
    /\ pc = "serving"
    /\ IsCall
    /\ req.name = "update_dataset"
    /\ DOMAIN req.arguments = {"dsid"}
    /\ Answered("Error executing update_dataset: 'updates'")

\* C5: when CRUCIBLE_API_URL or CRUCIBLE_API_KEY is absent at startup (also
\* when exactly one is set), the client is never constructed and tools are
\* never served; once the process has exited it did so with status 1 after
\* printing one diagnostic naming both variables to stderr.
C5_NoServingWithoutConfig ==
    (env.CRUCIBLE_API_URL = PyNone \/ env.CRUCIBLE_API_KEY = PyNone)
        => /\ pc # "serving"
           /\ client = PyNone
           /\ assignments = 0
           /\ pc = "exited"
                => /\ exit_status = 1
                   /\ stderr = <<"Error: CRUCIBLE_API_URL and CRUCIBLE_API_KEY environment variables must be set">>

C5_Witness ==
    /\ env.CRUCIBLE_API_URL = PyStr("https://crucible.example")
    /\ env.CRUCIBLE_API_KEY = PyNone
    /\ pc = "exited"
    /\ exit_status = 1
    /\ Len(stderr) = 1

\* C6: the global client is assigned at most once, by main on its way into
\* the transport loop; no call of handle_list_tools or handle_call_tool, on
\* any outcome, assigns it again or clears it.
C6_ClientAssignedOnce ==
    [][/\ client # PyNone => client' = client
       /\ client' # client => (pc = "loaded" /\ pc' = "serving" /\ req' = req
                               /\ assignments = 0)
       /\ assignments' <= 1]_vars

C6_Witness ==
    /\ pc = "serving"
    /\ client = CrucibleClient(PyStr("https://crucible.example"), PyStr("secret"))
    /\ assignments = 1
    /\ IsCall
    /\ ClientReturned

\* C7: one call of handle_call_tool invokes at most one client method, at
\* most once; when that invocation raises, the same call reports it and no
\* second invocation is made.
C7_SingleAttempt ==
    IsCall
        => /\ Len(invoked) <= 1
           /\ ClientRaised => (Len(invoked) = 1 /\ resp.kind = "returned")

C7_Witness ==
    /\ IsCall
    /\ ClientRaised
    /\ invoked[1].answer.exc = Exc("HTTPError", "404 Not Found")
    /\ Len(invoked) = 1
    /\ invoked[1].call.method = "download_dataset"

\* C8: a None return is answered with the fixed text "Operation completed
\* successfully (no return value)"; an empty list is answered "[]" and an
\* empty mapping "{}"; no return value other than None gives the fixed text.
C8_NoneIsNotEmpty ==
    (IsCall /\ ClientReturned)
        => LET value == invoked[1].answer.value
           IN  /\ value = PyNone
                    => Answered("Operation completed successfully (no return value)")
               /\ value = PyList(<< >>) => Answered("[]")
               /\ value = PyDict(EmptyDict) => Answered("{}")
               /\ Answered("Operation completed successfully (no return value)")
                    => value = PyNone

C8_Witness ==
    /\ IsCall
    /\ ClientReturned
    /\ invoked[1].answer.value = PyList(<< >>)
    /\ Answered("[]")

\* the default a call of the client carries for an optional parameter
Carries(key, value) ==
    /\ key \in DOMAIN invoked[1].call.kwargs
    /\ invoked[1].call.kwargs[key] = value

\* C9: a call of a registered tool with exactly its required arguments
\* makes one client invocation, in which every omitted optional parameter
\* that declares a default carries it: limit=100 (list_projects,
\* get_thumbnails, get_associated_files, get_keywords),
\* include_metadata=False, overwrite=False, wait_for_response=False and
\* overwrite_data=False.
C9_DeclaredDefaultsForwarded ==
    (/\ IsCall
     /\ client # PyNone
     /\ req.name \in ToolNames
     /\ DOMAIN req.arguments = Required(req.name))
        => /\ Len(invoked) = 1
           /\ \A key \in Properties(req.name) \ Required(req.name) :
                 LET property == Descriptor(req.name).properties[key]
                 IN  property.declared # "none" => Carries(key, property.default)
           /\ req.name \in {"list_projects", "get_thumbnails", "get_associated_files",
                            "get_keywords"} => Carries("limit", PyInt(100))
           /\ req.name = "get_dataset" => Carries("include_metadata", PyBool(FALSE))
           /\ req.name = "update_scientific_metadata" => Carries("overwrite", PyBool(FALSE))
           /\ req.name = "request_scicat_upload"
                 => /\ Carries("wait_for_response", PyBool(FALSE))
                    /\ Carries("overwrite_data", PyBool(FALSE))

C9_Witness ==
    /\ IsCall
    /\ req.name = "request_scicat_upload"
    /\ DOMAIN req.arguments = {"dsid"}
    /\ Len(invoked) = 1
    /\ invoked[1].call.kwargs =
          [wait_for_response |-> PyBool(FALSE), overwrite_data |-> PyBool(FALSE)]

\* the parameters a list-style tool declares: the schema's properties in
\* 1.0, the function's signature in 2.0
DeclaredFilters(name) ==
    IF version = "1.0" THEN Properties(name)
    ELSE IF name = "list_datasets" THEN DOMAIN ListDatasetsDefaults
    ELSE DOMAIN ListSamplesDefaults

\* C10: list_datasets and list_samples pass the client no key outside the
\* tool's declared properties, whatever the argument bag.
C10_OnlyDeclaredFiltersForwarded ==
    (/\ req.kind \in {"call_tool", "tool_function"}
     /\ req.name \in {"list_datasets", "list_samples"}
     /\ invoked # << >>)
        => DOMAIN invoked[1].call.kwargs \subseteq DeclaredFilters(req.name)

\* C11: every filter a list_datasets request supplies reaches
\* client.list_datasets under the same key with the same value (1.0: every
\* key of the bag; 2.0: every filter that is not None).
C11_FiltersVerbatim ==
    (/\ req.kind \in {"call_tool", "tool_function"}
     /\ req.name = "list_datasets"
     /\ client # PyNone)
        => /\ Len(invoked) = 1
           /\ invoked[1].call.method = "list_datasets"
           /\ req.kind = "call_tool"
                 => \A key \in DOMAIN req.arguments : Carries(key, req.arguments[key])
           /\ req.kind = "tool_function"
                 => \A key \in ListDatasetsFilterKeys :
                       req.params[key] # PyNone => Carries(key, req.params[key])

C11_Witness ==
    /\ IsCall
    /\ req.name = "list_datasets"
    /\ req.arguments = [keyword |-> PyStr("TEM")]
    /\ Len(invoked) = 1
    /\ invoked[1].call.kwargs = [keyword |-> PyStr("TEM")]

\* C12: every call of handle_list_tools returns the list the first call
\* returned, whether or not the client is set and whatever was called
\* before; it invokes no client method and changes nothing else.
C12_ListToolsIsPure ==
    [][(req' # req /\ req'.kind = "list_tools")
          => /\ resp'.kind = "tools"
             /\ first_tools'.listed
             /\ resp'.tools = first_tools'.tools
             /\ first_tools.listed => first_tools' = first_tools
             /\ invoked' = << >>
             /\ UNCHANGED <<version, env, pc, exit_status, client, assignments, stderr,
                            tasks>>]_vars

C12_Witness ==
    /\ req.kind = "list_tools"
    /\ first_tools.listed
    /\ first_tools.handle = PyNone
    /\ client # PyNone
    /\ resp.tools = first_tools.tools
    /\ Len(resp.tools) = 28

\* C13: a registered tool name is declared once, and a call under it never
\* gets the unknown-tool answer; the one client method a call under it
\* invokes is the method of that name, so distinct tools get distinct
\* methods.
C13_OneMethodPerTool ==
    (IsCall /\ client # PyNone /\ req.name \in ToolNames)
        => /\ Cardinality({i \in DOMAIN ToolList : ToolList[i].name = req.name}) = 1
           /\ ~Answered("Error: Unknown tool '" \o req.name \o "'")
           /\ Len(invoked) <= 1
           /\ invoked # << >> => invoked[1].call.method = req.name

C13_Witness ==
    /\ IsCall
    /\ req.name = "get_scicat_status"
    /\ Len(invoked) = 1
    /\ invoked[1].call.method = "get_scicat_status"
    /\ invoked[1].call.args = <<PyStr("DS123"), PyStr("TEM")>>

\* C14: on every path a call of handle_call_tool returns a list of exactly
\* one content item, of type "text".
C14_OneTextItem ==
    IsCall
        => /\ resp.kind = "returned"
           /\ Len(resp.contents) = 1
           /\ resp.contents[1].type = "text"

C14_Witness ==
    /\ IsCall
    /\ pc = "serving"
    /\ req.name = UnroutedName
    /\ Len(resp.contents) = 1
    /\ resp.contents[1] = [type |-> "text", text |-> "Error: Unknown tool 'no_such_tool'"]

\* the arguments of the request, however it came in
RequestBag == IF req.kind = "call_tool" THEN req.arguments ELSE req.params

\* C15: list_projects can be called with neither, either or both of orcid
\* and limit, and an orcid that is supplied is forwarded to
\* client.list_projects.
C15_OrcidOptionalAndForwarded ==
    (/\ req.kind \in {"call_tool", "tool_function"}
     /\ req.name = "list_projects"
     /\ client # PyNone)
        => /\ Len(invoked) = 1
           /\ invoked[1].call.method = "list_projects"
           /\ "orcid" \in DOMAIN RequestBag
                 => \/ \E i \in DOMAIN invoked[1].call.args :
                          invoked[1].call.args[i] = RequestBag["orcid"]
                    \/ Carries("orcid", RequestBag["orcid"])

(***************************************************************************)
(* The keys a branch of the chain reads by arguments[key]: the keys whose  *)
(* absence alone, from a bag holding every other key, makes the branch     *)
(* raise KeyError for them.                                                *)
(***************************************************************************)
AllKeys == UNION {Properties(n) : n \in ToolNames} \cup {"orcid", UndeclaredKey}

FullBag(name) == [k \in AllKeys |-> CHOOSE v \in ValuesFor(name, k) : TRUE]

Without(b, key) == [k \in DOMAIN b \ {key} |-> b[k]]

MandatoryKeys(name) ==
    LET full == FullBag(name)
    IN  {k \in AllKeys : Branch(name, Without(full, k)) = Raise(KeyError(k))}

\* the required keys of the registry the request's bag does not hold
MissingRequired ==
    IF req.name \in ToolNames THEN Required(req.name) \ DOMAIN req.arguments ELSE {}

\* C17 as stated: a call of a registered tool without one of its required
\* arguments reaches the client, and the text the caller gets is the
\* "Error executing {tool}: ..." rendering of the failure the client call
\* produced.
C17_MissingKeyFailsInClientCall ==
    (/\ IsCall
     /\ client # PyNone
     /\ MissingRequired # {})
        => /\ ClientRaised
           /\ Answered(ErrorExecutingText(req.name, invoked[1].answer.exc))

\* C17: a call of a registered tool without one of its required arguments
\* fails in the branch's own arguments[key] lookup, before any client
\* method is invoked; the caller gets the one text
\* "Error executing {tool}: '{key}'" for a missing required key, and
\* nothing is raised to the transport.
C17_MissingKeyIsCaughtKeyError ==
    (/\ IsCall
     /\ client # PyNone
     /\ MissingRequired # {})
        => /\ invoked = << >>
           /\ \E k \in MissingRequired :
                 Answered(ErrorExecutingText(req.name, KeyError(k)))

C17_Witness ==
    /\ IsCall
    /\ client # PyNone
    /\ req.name = "get_dataset"
    /\ "dsid" \notin DOMAIN req.arguments
    /\ Answered("Error executing get_dataset: 'dsid'")

\* C18: a call of handle_call_tool invokes a client method only when the
\* client is set, the name is one the chain routes, and the bag holds
\* every key the branch indexes; with the client unset, with a name the
\* chain does not route, and with an indexed key missing, it returns its
\* error text having invoked nothing.
C18_InvokesOnlyWhenReady ==
    IsCall =>
        LET missing == MandatoryKeys(req.name) \ DOMAIN req.arguments
        IN  /\ invoked # << >>
                 => /\ client # PyNone
                    /\ req.name \in RoutedNames
                    /\ missing = {}
            /\ client = PyNone
                 => invoked = << >> /\ Answered(NotInitializedText)
            /\ (client # PyNone /\ req.name \notin RoutedNames)
                 => invoked = << >> /\ Answered(UnknownToolText(req.name))
            /\ (client # PyNone /\ req.name \in RoutedNames /\ missing # {})
                 => /\ invoked = << >>
                    /\ \E k \in missing :
                          Answered(ErrorExecutingText(req.name, KeyError(k)))

C18_Witness ==
    /\ IsCall
    /\ client # PyNone
    /\ req.name = "update_dataset"
    /\ "dsid" \in DOMAIN req.arguments
    /\ "updates" \notin DOMAIN req.arguments
    /\ invoked = << >>
    /\ Answered("Error executing update_dataset: 'updates'")

\* C19: for every registered tool the keys its schema lists as required
\* are the keys its branch reads by arguments[key], so a call reaches the
\* client exactly when the bag holds the required keys, and every
\* property whose schema declares a default is passed with that default
\* when the bag omits it.
C19_RegistryMatchesDispatcher ==
    (/\ IsCall
     /\ client # PyNone
     /\ req.name \in ToolNames)
        => /\ Required(req.name) = MandatoryKeys(req.name)
           /\ (Len(invoked) = 1) <=> (Required(req.name) \subseteq DOMAIN req.arguments)
           /\ \A k \in Properties(req.name) \ DOMAIN req.arguments :
                 (/\ Descriptor(req.name).properties[k].declared = "schema"
                  /\ invoked # << >>)
                     => Carries(k, Descriptor(req.name).properties[k].default)

C19_Witness ==
    /\ IsCall
    /\ client # PyNone
    /\ req.name = "update_scientific_metadata"
    /\ Required(req.name) = {"dsid", "metadata"}
    /\ DOMAIN req.arguments = Required(req.name)
    /\ Len(invoked) = 1
    /\ Carries("overwrite", PyBool(FALSE))

\* the parameters 2.0 passes to the client by position
Positional(tool) ==
    IF tool = "list_datasets" THEN <<"sample_id", "limit">>
    ELSE <<"dataset_id", "parent_id", "limit">>

\* the parameters a 2.0 list function declares
Signature(tool) ==
    IF tool = "list_datasets" THEN DOMAIN ListDatasetsDefaults
    ELSE DOMAIN ListSamplesDefaults

\* C20: a call of the 2.0 list_datasets or list_samples makes one client
\* invocation whose keyword arguments are exactly the declared filters
\* bound to a value other than None, each under its own name with its own
\* value, and whose positional arguments are sample_id and limit
\* (dataset_id, parent_id and limit), passed as bound, None included, and
\* never repeated among the keywords.
C20_FiltersForwardedIffNotNone ==
    (/\ req.kind = "tool_function"
     /\ req.name \in {"list_datasets", "list_samples"})
        => LET p == req.params
               pos == Positional(req.name)
               filters == Signature(req.name) \ {pos[i] : i \in DOMAIN pos}
           IN  /\ Len(invoked) = 1
               /\ invoked[1].call.method = req.name
               /\ DOMAIN invoked[1].call.kwargs = {k \in filters : p[k] # PyNone}
               /\ \A k \in DOMAIN invoked[1].call.kwargs :
                     invoked[1].call.kwargs[k] = p[k]
               /\ invoked[1].call.args = [i \in DOMAIN pos |-> p[pos[i]]]

C20_Witness ==
    /\ req.kind = "tool_function"
    /\ req.name = "list_datasets"
    /\ req.params["public"] = PyBool(FALSE)
    /\ req.params["keyword"] = PyNone
    /\ req.params["sample_id"] = PyNone
    /\ Len(invoked) = 1
    /\ invoked[1].call.kwargs = [public |-> PyBool(FALSE)]
    /\ invoked[1].call.args = <<PyNone, PyInt(100)>>

\* the scheduled calls that have returned
Done == {i \in DOMAIN tasks : tasks[i].done}

\* C16: however concurrently scheduled calls of handle_call_tool are
\* interleaved, each reads the one client handle main assigned, which is
\* still the global client, and two calls with the same name, the same
\* bag and the same client answer get the same result and make the same
\* invocation, whatever ran before or between them.
C16_ConcurrentCallsIndependent ==
    /\ \A i \in Done : tasks[i].handle = client /\ client # PyNone
    /\ \A i, j \in Done :
          (/\ tasks[i].name = tasks[j].name
           /\ tasks[i].arguments = tasks[j].arguments
           /\ tasks[i].answer = tasks[j].answer)
              => /\ tasks[i].resp = tasks[j].resp
                 /\ tasks[i].invoked = tasks[j].invoked

C16_Witness ==
    /\ Len(tasks) = 2
    /\ Done = {1, 2}
    /\ tasks[1].name = "get_dataset"
    /\ tasks[2].name = "get_dataset"
    /\ tasks[1].arguments = tasks[2].arguments
    /\ tasks[1].answer = Raises(Exc("HTTPError", "404 Not Found"))
    /\ tasks[2].answer = tasks[1].answer
    /\ tasks[1].resp = tasks[2].resp

\* C21: when the client method a call invoked returned a value json.dumps
\* cannot write (a container that holds itself, a dict with a tuple key),
\* the handler returns the text "Error executing {tool}: {str(e)}" of the
\* exception json.dumps raised and raises nothing, although the client
\* method was invoked, once, and returned.
C21_SerializationFailureIsErrorText ==
    (/\ IsCall
     /\ ClientReturned
     /\ ~Serializable(invoked[1].answer.value))
        => /\ Len(invoked) = 1
           /\ \/ Answered("Error executing " \o req.name \o ": Circular reference detected")
              \/ Answered("Error executing " \o req.name
                          \o ": keys must be str, int, float, bool or None, not tuple")

C21_Witness ==
    /\ IsCall
    /\ req.name = "update_dataset"
    /\ Len(invoked) = 1
    /\ invoked[1].call.method = "update_dataset"
    /\ invoked[1].answer = Returns(PyTupleKeyed)
    /\ Answered("Error executing update_dataset: keys must be str, int, float, bool or None, not tuple")

\* C22: in both server versions, when CRUCIBLE_API_URL or CRUCIBLE_API_KEY
\* is set to the empty string, startup does what it does for an absent
\* variable: no step constructs the client or enters the transport loop,
\* and the one step that leaves the loaded state is the exit with status 1
\* after the diagnostic on stderr.
C22_EmptyIsAbsent ==
    [][(env.CRUCIBLE_API_URL = PyStr("") \/ env.CRUCIBLE_API_KEY = PyStr(""))
          => /\ client' = PyNone
             /\ assignments' = 0
             /\ pc' # "serving"
             /\ pc' # pc
                  => /\ pc = "loaded"
                     /\ pc' = "exited"
                     /\ exit_status' = 1
                     /\ stderr' = <<ConfigErrorText>>]_vars

C22_Witness ==
    /\ version = "2.0"
    /\ env.CRUCIBLE_API_URL = PyStr("https://crucible.example")
    /\ env.CRUCIBLE_API_KEY = PyStr("")
    /\ pc = "exited"
    /\ exit_status = 1
    /\ client = PyNone

====
